---- MODULE Spec2Model ----
(***************************************************************************)
(* Model of binstar_client.Binstar (src/binstar_client/__init__.py): one   *)
(* client session, the response classifier _check_response, and the        *)
(* client operations built on it (check_server, authenticate, download,    *)
(* upload, ...).                                                           *)
(*                                                                         *)
(* Strings that the code inspects character by character (the domain, the  *)
(* storage URL) are sequences of one-character strings, so that startswith *)
(* and endswith are computed as Python computes them.                      *)
(*                                                                         *)
(* A method that performs several network round trips is modelled with one *)
(* action per round trip: the action sends the request, receives the       *)
(* response chosen by the environment and runs the method's code up to the *)
(* next request (or to its return / raise).  pc is the method's position.  *)
(*                                                                         *)
(* Environment assumptions (spec.md section 6, "Body formats"): a body     *)
(* that parses as JSON is a JSON object; a 200 answer to the stage request *)
(* names post_url, form_data and dist_id; a 302 answer carries a location  *)
(* header; a successful authentication answer names a token.               *)
(***************************************************************************)
EXTENDS Integers, Sequences, FiniteSets, TLC

\* Largest artifact (in bytes) the model uploads.
MaxFile == 2
\* The count of logged token warnings saturates here.
MaxWarn == 3
\* Calls of _check_response each concurrent caller makes.
MaxCalls == 2

None == "None"

---------------------------------------------------------------------------
(* Strings *)

HTTP == <<"h", "t", "t", "p", ":", "/", "/">>
HTTPS == <<"h", "t", "t", "p", "s", ":", "/", "/">>

\* str.startswith(p)
startswith(s, p) == Len(s) >= Len(p) /\ SubSeq(s, 1, Len(p)) = p

\* str.endswith(c) for a one-character c
endswith(s, c) == Len(s) > 0 /\ s[Len(s)] = c

\* The origin (scheme, host, port) of an absolute URL: everything before the
\* first "/" that follows the "scheme://" part.  The code never computes it;
\* the properties about where credentials go are stated with it.
RECURSIVE FirstSlashFrom(_, _)
FirstSlashFrom(s, i) ==
    IF i > Len(s) THEN Len(s) + 1
    ELSE IF s[i] = "/" THEN i
    ELSE FirstSlashFrom(s, i + 1)

SchemeLen(u) ==
    IF startswith(u, HTTPS) THEN Len(HTTPS)
    ELSE IF startswith(u, HTTP) THEN Len(HTTP)
    ELSE 0

Origin(u) == SubSeq(u, 1, FirstSlashFrom(u, SchemeLen(u) + 1) - 1)

---------------------------------------------------------------------------
(* Binstar.__init__ *)

\* domain[:-1] taken once when the domain ends with "/" (lines 57-58)
StripSlash(d) == IF endswith(d, "/") THEN SubSeq(d, 1, Len(d) - 1) ELSE d

\* 'https://' + domain unless the domain already has a scheme (lines 59-60)
AddScheme(d) ==
    IF startswith(d, HTTP) \/ startswith(d, HTTPS) THEN d ELSE HTTPS \o d

\* self.domain as the constructor stores it (lines 57-61)
NormalizeDomain(d) == AddScheme(StripSlash(d))

\* Domain strings given to the constructor.
DomainInputs ==
    { <<"a">>, <<"a", "/">>, <<"a", "/", "/">>,
      HTTP \o <<"a">>, HTTPS \o <<"a", "/">>, HTTPS, HTTPS \o <<"/">> }

\* Tokens given to the constructor (None: anonymous).
CtorTokens == {None, "t0"}

\* Tokens the server issues on authentication.
ServerTokens == {"t1"}

\* 'token {}'.format(token)
TokenHeader(t) == <<"token", t>>

\* No Authorization header.
NoAuth == <<>>

\* The session's Authorization header after construction (lines 54-55)
InitAuthorization(t) == IF t # None THEN TokenHeader(t) ELSE NoAuth

---------------------------------------------------------------------------
(* Responses *)

TW == "Conda-Token-Warning"
LD == "X-Anaconda-Lockdown"
RO == "X-Anaconda-Read-Only"
HeaderNames == {TW, LD, RO}

Statuses == {200, 201, 302, 304, 400, 401, 404, 409, 500, 503}

\* "text": not JSON; "json_error": a JSON object with an 'error' field;
\* "json": a JSON object without one.
Bodies == {"text", "json_error", "json"}

\* newer: the x-binstar-api-version header is present and newer than the
\* client's __version__.
Responses ==
    [status : Statuses, headers : SUBSET HeaderNames, newer : BOOLEAN,
     body : Bodies]

DefaultAllowed == {200}

\* Allowed sets given to _check_response: those of the callers (lines 144,
\* 188, 514) and one naming error statuses.
AllowedSets == {{200}, {201}, {200, 302, 304}, {200, 401, 404, 409, 500, 503}}

---------------------------------------------------------------------------
(* Binstar._check_response, lines 190-227 *)

\* lines 196-198: the token warning is logged
LogsTokenWarning(res, sent) == ~sent /\ TW \in res.headers

\* (mutation of TokenWarningSentAfter: line 198 is missing)
TokenWarningSentAfter_NeverSet(res, sent) == sent

\* lines 196-198: self._token_warning_sent after the classification
TokenWarningSentAfter(res, sent) ==
    IF LogsTokenWarning(res, sent) THEN TRUE ELSE sent

\* lines 191-204: the warnings one classification logs
Warnings(res, sent) ==
    (IF res.newer THEN {"version"} ELSE {})
    \cup (IF LogsTokenWarning(res, sent) THEN {"token"} ELSE {})
    \cup (IF LD \in res.headers THEN {"lockdown"} ELSE {})
    \cup (IF RO \in res.headers THEN {"readonly"} ELSE {})

\* (mutation of NotAllowed: a lockdown header fails the response)
NotAllowed_Lockdown(res, allowed) ==
    res.status \notin allowed \/ LD \in res.headers

\* line 206
NotAllowed(res, allowed) == res.status \notin allowed

\* (mutation of ErrCls: the 409 branch is missing)
ErrCls_NoConflict(status) ==
    IF status = 401 THEN "Unauthorized"
    ELSE IF status = 404 THEN "NotFound"
    ELSE IF status >= 500 THEN "ServerError"
    ELSE "BinstarError"

\* lines 217-225
ErrCls(status) ==
    IF status = 401 THEN "Unauthorized"
    ELSE IF status = 404 THEN "NotFound"
    ELSE IF status = 409 THEN "Conflict"
    ELSE IF status >= 500 THEN "ServerError"
    ELSE "BinstarError"

\* lines 207-215: the server's 'error' field when the body is a JSON object
\* that has one, the message built from STATUS_CODES otherwise
ErrMsg(res) == IF res.body = "json_error" THEN "server" ELSE "default"

\* line 227: ErrCls(msg, res.status_code); the status is the error's second
\* argument (<<>>: an error built without one)
RaisedStatus(res) == <<res.status>>

NoStatus == <<>>

Returned(v) ==
    [kind |-> "return", value |-> v, cls |-> None, msg |-> None,
     status |-> NoStatus, cause |-> None]

Raised(cls, msg, status, cause) ==
    [kind |-> "raise", value |-> None, cls |-> cls, msg |-> msg,
     status |-> status, cause |-> cause]

NoResult ==
    [kind |-> "none", value |-> None, cls |-> None, msg |-> None,
     status |-> NoStatus, cause |-> None]

\* The outcome of _check_response: OK (it returns None) or the raised error.
OK == Returned(None)

Classify(res, allowed) ==
    IF NotAllowed(res, allowed)
    THEN Raised(ErrCls(res.status), ErrMsg(res), RaisedStatus(res), None)
    ELSE OK

\* The exception classes that derive from errors.BinstarError.
BinstarErrors ==
    {"BinstarError", "Unauthorized", "NotFound", "Conflict", "ServerError"}

\* res.json(): raises ValueError on a body that is not JSON
JsonFails(res) == res.body = "text"

\* self._check_response(res, allowed); return res.json()
CheckedJson(res, allowed, v) ==
    IF Classify(res, allowed).kind = "raise" THEN Classify(res, allowed)
    ELSE IF JsonFails(res) THEN Raised("ValueError", None, NoStatus, None)
    ELSE Returned(v)

\* The HTTP call raises requests' ConnectionError; nothing catches it.
TransportError == Raised("ConnectionError", None, NoStatus, None)

---------------------------------------------------------------------------
(* State *)

VARIABLES
    domain,            \* self.domain
    token,             \* self.token
    authorization,     \* self._session.headers['Authorization'] or None
    tokenWarningSent,  \* self._token_warning_sent
    warnCount,         \* token warnings logged on this session so far
    tokenHeaderSeen,   \* some classified response carried Conda-Token-Warning
    pc,                \* position of the caller / of the running method
    op,                \* the running method
    reqs,              \* the requests the running method has sent
    answers,           \* what the transport gave back for each of them
    last,              \* the response the last step classified, its allowed set
    logged,            \* the warnings logged by the last step
    result,            \* what the method returned or raised
    fd,                \* the artifact stream of upload: position and length
    frame,             \* the running method's locals between its requests
    clients,           \* the Binstar objects that concurrent callers use
    callers            \* the concurrent callers, each inside _check_response

vars ==
    <<domain, token, authorization, tokenWarningSent, warnCount,
      tokenHeaderSeen, pc, op, reqs, answers, last, logged, result, fd,
      frame, clients, callers>>

\* The state of concurrent use; the one-caller specification has none.
concurrent == <<clients, callers>>

session == <<domain, token, authorization, tokenWarningSent, warnCount,
             tokenHeaderSeen>>

NoFd == [pos |-> 0, len |-> 0]

\* md5, s3url, size, b64md5, via (request_method): upload's locals;
\* text: s3res.text as the failure branch of upload reads it (line 600);
\* location: the location header download follows
NoFrame ==
    [md5 |-> None, s3url |-> <<>>, size |-> <<>>, b64md5 |-> None,
     via |-> None, text |-> None, location |-> <<>>]

NoLast == [status |-> <<>>, allowed |-> {}, headers |-> {}, newer |-> FALSE]

\* Binstar.__init__, lines 39-61, and a caller that has called nothing yet
Constructed ==
    /\ \E d \in DomainInputs : domain = NormalizeDomain(d)
    /\ \E t \in CtorTokens :
          /\ token = t
          /\ authorization = InitAuthorization(t)
    /\ tokenWarningSent = FALSE
    /\ warnCount = 0
    /\ tokenHeaderSeen = FALSE
    /\ pc = "idle"
    /\ op = None
    /\ reqs = <<>>
    /\ answers = <<>>
    /\ last = NoLast
    /\ logged = {}
    /\ result = NoResult
    /\ fd = NoFd
    /\ frame = NoFrame

Init ==
    /\ Constructed
    /\ clients = <<>>
    /\ callers = <<>>

\* A request as the transport sees it.  via: "session" (self.session, which
\* adds the session headers) or "requests" (the bare requests module).
\* auth: the Authorization header on the wire; data: the form fields of a
\* multipart body (Content-Length, Content-MD5), <<>> when there are none.
Req(name, via, method, url, auth, redirects, etag, data) ==
    [name |-> name, via |-> via, method |-> method, url |-> url,
     authorization |-> auth, redirects |-> redirects, etag |-> etag,
     data |-> data]

\* self.session.<method>(url): the session adds its own headers
SessionReq(name, method, url) ==
    Req(name, "session", method, url, authorization, TRUE, FALSE, <<>>)

\* requests.<method>(url): no session, so none of its headers
BareReq(name, method, url) ==
    Req(name, "requests", method, url, NoAuth, TRUE, FALSE, <<>>)

\* The transport's answer to a request: a response, or the exception of a
\* server that cannot be reached.
\* (status: <<>> when there is none; json: the body decodes as JSON)
Answer(r) ==
    [reached |-> TRUE, status |-> <<r.status>>, json |-> ~JsonFails(r)]
Unreachable == [reached |-> FALSE, status |-> <<>>, json |-> FALSE]
\* An answer whose status and body the method does not look at.
SomeAnswer == [reached |-> TRUE, status |-> <<>>, json |-> FALSE]
\* The storage layer's answer (its body is XML or text, never decoded as JSON).
S3Answer(status) == [reached |-> TRUE, status |-> <<status>>, json |-> FALSE]

Received(r) == answers' = Append(answers, Answer(r))
NotReached == answers' = Append(answers, Unreachable)

\* The effect of one _check_response(res, allowed) on the session and the log.
Classified(res, allowed) ==
    /\ tokenWarningSent' = TokenWarningSentAfter(res, tokenWarningSent)
    /\ warnCount' =
          IF LogsTokenWarning(res, tokenWarningSent) /\ warnCount < MaxWarn
          THEN warnCount + 1 ELSE warnCount
    /\ tokenHeaderSeen' = (tokenHeaderSeen \/ TW \in res.headers)
    /\ logged' = Warnings(res, tokenWarningSent)
    /\ last' = [status |-> <<res.status>>, allowed |-> allowed,
                headers |-> res.headers, newer |-> res.newer]

\* A step that classifies nothing.
Unclassified ==
    /\ logged' = {}
    /\ last' = NoLast
    /\ UNCHANGED <<tokenWarningSent, warnCount, tokenHeaderSeen>>

---------------------------------------------------------------------------
(* Operations *)

\* Binstar._check_response called directly on a response, lines 190-227
CheckResponse ==
    /\ pc = "idle"
    /\ \E res \in Responses, allowed \in AllowedSets :
          /\ Classified(res, allowed)
          /\ result' = Classify(res, allowed)
    /\ op' = "_check_response"
    /\ pc' = "done"
    /\ UNCHANGED <<domain, token, authorization, reqs, answers, fd, frame>>
    /\ UNCHANGED concurrent

\* Binstar.package, lines 290-300 (user, release, search, ... have the same
\* shape: one session request, default allowed set, the decoded body)
Package ==
    /\ pc = "idle"
    /\ op' = "package"
    /\ pc' = "done"
    /\ reqs' = <<SessionReq("package", "GET", domain \o <<"/", "p">>)>>
    /\ \/ /\ result' = TransportError
          /\ NotReached
          /\ Unclassified
       \/ \E r \in Responses :
             /\ Classified(r, DefaultAllowed)
             /\ Received(r)
             /\ result' = CheckedJson(r, DefaultAllowed, "package")
    /\ UNCHANGED <<domain, token, authorization, fd, frame>>
    /\ UNCHANGED concurrent

\* check_server, line 72
ServerNotFoundMsg == "API server not found"

\* (mutation of CheckServerUnreachable: lines 76-77 are missing)
CheckServerUnreachable_Unwrapped == TransportError

\* check_server, lines 74-77: the transport failure is wrapped
CheckServerUnreachable ==
    Raised("ServerError", ServerNotFoundMsg, NoStatus, "ConnectionError")

\* check_server, lines 79-82: NotFound is converted, any other outcome of the
\* classification stands
CheckServerResult(res) ==
    IF Classify(res, DefaultAllowed).cls = "NotFound"
    THEN Raised("ServerError", ServerNotFoundMsg, NoStatus, "NotFound")
    ELSE Classify(res, DefaultAllowed)

\* Binstar.check_server, lines 67-82
CheckServer ==
    /\ pc = "idle"
    /\ op' = "check_server"
    /\ pc' = "done"
    /\ reqs' = <<SessionReq("head", "HEAD", domain)>>
    /\ \/ /\ result' = CheckServerUnreachable
          /\ NotReached
          /\ Unclassified
       \/ \E r \in Responses :
             /\ Classified(r, DefaultAllowed)
             /\ Received(r)
             /\ result' = CheckServerResult(r)
    /\ UNCHANGED <<domain, token, authorization, fd, frame>>
    /\ UNCHANGED concurrent

\* authentication_type, lines 87-92: a BinstarError of the classification is
\* answered 'password'; the ValueError of res.json() is not caught
AuthenticationTypeResult(res) ==
    IF Classify(res, DefaultAllowed).kind = "raise" THEN Returned("password")
    ELSE IF JsonFails(res) THEN Raised("ValueError", None, NoStatus, None)
    ELSE Returned("authentication_type")

\* Binstar.authentication_type, lines 84-92
AuthenticationType ==
    /\ pc = "idle"
    /\ op' = "authentication_type"
    /\ pc' = "done"
    /\ reqs' = <<SessionReq("authentication-type", "GET",
                            domain \o <<"/", "t">>)>>
    /\ \/ /\ result' = TransportError
          /\ NotReached
          /\ Unclassified
       \/ \E r \in Responses :
             /\ Classified(r, DefaultAllowed)
             /\ Received(r)
             /\ result' = AuthenticationTypeResult(r)
    /\ UNCHANGED <<domain, token, authorization, fd, frame>>
    /\ UNCHANGED concurrent

\* (mutation of AuthorizationAfter: the header is set before the answer is
\* checked)
AuthorizationAfter_Unchecked(res, tok, auth) == TokenHeader(tok)

\* _authenticate, lines 144-148: the session's Authorization header after the
\* answer res that names the token tok
AuthorizationAfter(res, tok, auth) ==
    IF CheckedJson(res, DefaultAllowed, tok).kind = "return"
    THEN TokenHeader(tok) ELSE auth

\* Binstar.authenticate / _authenticate, lines 107-148.  The request is sent
\* with auth=(username, password): HTTP basic credentials take the place of
\* the session's Authorization header on this request.
Authenticate ==
    /\ pc = "idle"
    /\ op' = "authenticate"
    /\ pc' = "done"
    /\ reqs' = <<Req("authentications", "session", "POST",
                     domain \o <<"/", "a">>, <<"basic">>, TRUE, FALSE, <<>>)>>
    /\ \/ /\ result' = TransportError
          /\ NotReached
          /\ Unclassified
          /\ UNCHANGED authorization
       \/ \E r \in Responses, tok \in ServerTokens :
             /\ Classified(r, DefaultAllowed)
             /\ Received(r)
             /\ result' = CheckedJson(r, DefaultAllowed, tok)
             /\ authorization' = AuthorizationAfter(r, tok, authorization)
    /\ UNCHANGED <<domain, token, fd, frame>>
    /\ UNCHANGED concurrent

\* Binstar.list_scopes, lines 150-154: the request bypasses the session
ListScopes ==
    /\ pc = "idle"
    /\ op' = "list_scopes"
    /\ pc' = "done"
    /\ reqs' = <<BareReq("scopes", "GET", domain \o <<"/", "o">>)>>
    /\ \/ /\ result' = TransportError
          /\ NotReached
          /\ Unclassified
       \/ \E r \in Responses :
             /\ Classified(r, DefaultAllowed)
             /\ Received(r)
             /\ result' = CheckedJson(r, DefaultAllowed, "scopes")
    /\ UNCHANGED <<domain, token, authorization, fd, frame>>
    /\ UNCHANGED concurrent

\* Binstar.remove_authentication, lines 175-188: allowed is [201], nothing is
\* returned
RemoveAuthentication ==
    /\ pc = "idle"
    /\ op' = "remove_authentication"
    /\ pc' = "done"
    /\ reqs' = <<SessionReq("authentications", "DELETE",
                            domain \o <<"/", "a">>)>>
    /\ \/ /\ result' = TransportError
          /\ NotReached
          /\ Unclassified
       \/ \E r \in Responses :
             /\ Classified(r, {201})
             /\ Received(r)
             /\ result' = Classify(r, {201})
    /\ UNCHANGED <<domain, token, authorization, fd, frame>>
    /\ UNCHANGED concurrent

---------------------------------------------------------------------------
(* Binstar.download, lines 493-528 *)

\* A storage host that is not the API server.
ExternalUrl == HTTPS \o <<"s", "3", "/", "b">>

\* The location header of a 302 answer.
Locations == {ExternalUrl, domain \o <<"/", "l">>}

\* lines 516-521: what download returns on a status that needs no follow-up
\* ("res": the primary response itself; None: unchanged, no stream)
DownloadValue(status) == IF status = 200 THEN "res" ELSE None

\* (mutation of FollowReq: the follow-up goes through the session)
FollowReq_Session(location) == SessionReq("follow", "GET", location)

\* line 527: requests.get(res.headers['location'], stream=True)
FollowReq(location) == BareReq("follow", "GET", location)

\* lines 507-526: the primary request and its classification
DownloadPrimary ==
    /\ pc = "idle"
    /\ op' = "download"
    /\ \E md5 \in BOOLEAN :
          reqs' = <<Req("download", "session", "GET", domain \o <<"/", "d">>,
                        authorization, FALSE, md5, <<>>)>>
    /\ \/ /\ result' = TransportError
          /\ NotReached
          /\ Unclassified
          /\ pc' = "done"
          /\ frame' = NoFrame
       \/ \E r \in Responses, loc \in Locations :
             /\ Classified(r, {200, 302, 304})
             /\ Received(r)
             /\ IF Classify(r, {200, 302, 304}).kind = "raise"
                THEN /\ result' = Classify(r, {200, 302, 304})
                     /\ pc' = "done"
                     /\ frame' = NoFrame
                ELSE IF r.status = 302
                THEN /\ result' = NoResult
                     /\ pc' = "follow"
                     /\ frame' = [NoFrame EXCEPT !.location = loc]
                ELSE /\ result' = Returned(DownloadValue(r.status))
                     /\ pc' = "done"
                     /\ frame' = NoFrame
    /\ UNCHANGED <<domain, token, authorization, fd>>
    /\ UNCHANGED concurrent

\* lines 527-528: the follow-up request; its response is returned as it is,
\* whatever its status
DownloadFollow ==
    /\ pc = "follow"
    /\ reqs' = Append(reqs, FollowReq(frame.location))
    /\ \/ /\ result' = TransportError
          /\ NotReached
       \/ /\ result' = Returned("res2")
          /\ answers' = Append(answers, SomeAnswer)
    /\ Unclassified
    /\ pc' = "done"
    /\ UNCHANGED <<domain, token, authorization, op, fd, frame>>
    /\ UNCHANGED concurrent

---------------------------------------------------------------------------
(* Binstar.upload, lines 530-612 *)

NoSize == <<>>

\* Artifact streams: a length and a read position.
Files == {[pos |-> p, len |-> n] : p \in 0..MaxFile, n \in 1..MaxFile}
Streams == {f \in Files : f.pos <= f.len}

\* The size argument: None or a number of bytes.
Sizes == {NoSize} \cup {<<n>> : n \in 1..MaxFile}

\* utils.compute_hash(fd, size=size): the byte count it returns.  It reads
\* from the current position to the end of the stream and leaves the read
\* position where it found it.
HashCount(f, size) == IF size = NoSize THEN <<f.len - f.pos>> ELSE size

\* lines 581-584: fd.tell() at the end minus fd.tell() now
SeekSize(f) == <<f.len - f.pos>>

\* lines 578-584: the local size when line 586 reads it
SizeLocal(md5, size, f) ==
    IF md5 = None THEN HashCount(f, size)
    ELSE IF size = NoSize THEN SeekSize(f)
    ELSE size

\* lines 578-587: the local b64md5 when line 587 reads it.  Only the branch
\* of line 579 assigns it.
Unbound == "unbound"
B64Md5Local(md5) == IF md5 = None THEN "b64md5" ELSE Unbound

\* lines 581-584: the read position after the seeks (fd.seek(spos))
PosAfterSeek(f) == f.pos

\* lines 578-584: the read position when the transfer starts
PosBeforeTransfer(md5, size, f) ==
    IF md5 # None /\ size = NoSize THEN PosAfterSeek(f) ELSE f.pos

\* line 556: the sha256 of the stage payload, the caller's or the one
\* compute_hash derives from the stream
Sha256Payload(sha256) == IF sha256 # None THEN sha256 ELSE "sha256(fd)"

\* lines 561-571: self.session.post(url, data=data, headers=headers)
StageReq(sha256) ==
    Req("stage", "session", "POST", domain \o <<"/", "s">>, authorization,
        TRUE, FALSE, <<Sha256Payload(sha256)>>)

\* line 589
RequestMethod(s3url, dom) ==
    IF startswith(s3url, dom) THEN "session" ELSE "requests"

\* The post_url of a stage answer: on the API's origin, on a host whose name
\* only begins like the API's, or on an external storage host.
S3Urls ==
    { domain \o <<"/", "u">>, Origin(domain) \o <<"/", "u">>,
      domain \o <<".", "e", "/", "u">>, ExternalUrl }

\* lines 550-589: the stage request, its classification, and the preparation
\* of the transfer
UploadStage ==
    /\ pc = "idle"
    /\ op' = "upload"
    /\ \/ \* line 554: attrs is not a dictionary
          /\ result' = Raised("TypeError", None, NoStatus, None)
          /\ reqs' = <<>>
          /\ Unclassified
          /\ pc' = "done"
          /\ UNCHANGED <<answers, fd, frame>>
       \/ \E f \in Streams, md5 \in {None, "md5"}, sha256 \in {None, "sha256"},
             size \in Sizes :
             /\ reqs' = <<StageReq(sha256)>>
             /\ \/ /\ result' = TransportError
                   /\ NotReached
                   /\ Unclassified
                   /\ pc' = "done"
                   /\ fd' = f
                   /\ frame' = NoFrame
                \/ \E r \in Responses :
                      /\ Classified(r, DefaultAllowed)
                      /\ Received(r)
                      /\ IF CheckedJson(r, DefaultAllowed, "obj").kind = "raise"
                         THEN /\ result' = CheckedJson(r, DefaultAllowed, "obj")
                              /\ pc' = "done"
                              /\ fd' = f
                              /\ frame' = NoFrame
                         ELSE \E s3url \in S3Urls :
                                 /\ fd' = [f EXCEPT !.pos = PosBeforeTransfer(md5, size, f)]
                                 /\ IF B64Md5Local(md5) = Unbound
                                    THEN /\ result' = Raised("UnboundLocalError",
                                                 None, NoStatus, None)
                                         /\ pc' = "done"
                                         /\ frame' =
                                               [NoFrame EXCEPT
                                                 !.md5 = md5,
                                                 !.s3url = s3url,
                                                 !.size = SizeLocal(md5, size, f),
                                                 !.b64md5 = B64Md5Local(md5)]
                                    ELSE /\ result' = NoResult
                                         /\ pc' = "transfer"
                                         /\ frame' =
                                               [NoFrame EXCEPT
                                                 !.md5 = md5,
                                                 !.s3url = s3url,
                                                 !.size = SizeLocal(md5, size, f),
                                                 !.b64md5 = B64Md5Local(md5),
                                                 !.via = RequestMethod(s3url, domain)]
    /\ UNCHANGED <<domain, token, authorization>>
    /\ UNCHANGED concurrent

\* The statuses and bodies of the storage layer's answers.
S3Statuses == {200, 201, 400, 403, 500}
S3Bodies == {"InvalidDigest", "OtherCode", "NoCode", "NotXML"}

\* lines 598-604: what a storage answer other than 201 raises
TransferError(status, body) ==
    IF body = "NotXML" THEN Raised("ParseError", None, NoStatus, None)
    ELSE IF body = "NoCode" THEN Raised("AttributeError", None, NoStatus, None)
    ELSE Raised("BinstarError",
                IF body = "InvalidDigest" THEN "upload+checksum" ELSE "upload",
                <<status>>, None)

\* (mutation of TransferFailed: only a server error of the storage fails)
TransferFailed_Only5xx(status) == status >= 500

\* line 598
TransferFailed(status) == status # 201

\* lines 594-596: request_method.post(s3url, data=s3data, files=...)
TransferReq ==
    Req("transfer", frame.via, "POST", frame.s3url,
        IF frame.via = "session" THEN authorization ELSE NoAuth,
        TRUE, FALSE, <<frame.size, frame.b64md5>>)

\* lines 591-604: the transfer and the check of its answer
UploadTransfer ==
    /\ pc = "transfer"
    /\ reqs' = Append(reqs, TransferReq)
    /\ Unclassified
    /\ \/ /\ result' = TransportError
          /\ NotReached
          /\ pc' = "done"
          /\ UNCHANGED <<fd, frame>>
       \/ \E status \in S3Statuses, body \in S3Bodies :
             /\ answers' = Append(answers, S3Answer(status))
             /\ fd' = [fd EXCEPT !.pos = fd.len]
             /\ IF TransferFailed(status)
                THEN /\ result' = TransferError(status, body)
                     /\ frame' = [frame EXCEPT !.text = body]
                     /\ pc' = "done"
                ELSE /\ result' = NoResult
                     /\ pc' = "commit"
                     /\ UNCHANGED frame
    /\ UNCHANGED <<domain, token, authorization, op>>
    /\ UNCHANGED concurrent

\* lines 606-612: the commit request; its decoded body is returned
UploadCommit ==
    /\ pc = "commit"
    /\ reqs' = Append(reqs, SessionReq("commit", "POST", domain \o <<"/", "c">>))
    /\ pc' = "done"
    /\ \/ /\ result' = TransportError
          /\ NotReached
          /\ Unclassified
       \/ \E r \in Responses :
             /\ Classified(r, DefaultAllowed)
             /\ Received(r)
             /\ result' = CheckedJson(r, DefaultAllowed, "commit")
    /\ UNCHANGED <<domain, token, authorization, op, fd, frame>>
    /\ UNCHANGED concurrent

---------------------------------------------------------------------------
\* The method has returned or raised; the caller goes on.
Return ==
    /\ pc = "done"
    /\ pc' = "idle"
    /\ op' = None
    /\ reqs' = <<>>
    /\ answers' = <<>>
    /\ last' = NoLast
    /\ logged' = {}
    /\ result' = NoResult
    /\ fd' = NoFd
    /\ frame' = NoFrame
    /\ UNCHANGED session
    /\ UNCHANGED concurrent

Next ==
    \/ CheckResponse
    \/ CheckServer
    \/ AuthenticationType
    \/ Authenticate
    \/ ListScopes
    \/ RemoveAuthentication
    \/ Package
    \/ DownloadPrimary
    \/ DownloadFollow
    \/ UploadStage
    \/ UploadTransfer
    \/ UploadCommit
    \/ Return

Spec == Init /\ [][Next]_vars

---------------------------------------------------------------------------
(* Concurrent use: callers on threads of their own inside _check_response,
   lines 196-198.  Nothing in the class takes a lock, so the test of line
   196, the log of line 197 and the assignment of line 198 are steps that
   another caller's steps can come between. *)

Callers == {"A", "B"}
Sessions == {"s1", "s2"}

\* The state of the one-caller specification, which concurrent callers
\* leave alone.
sequential ==
    <<domain, token, authorization, tokenWarningSent, warnCount,
      tokenHeaderSeen, pc, op, reqs, answers, last, logged, result, fd,
      frame>>

\* line 45: a new Binstar object has not sent the warning.  warnCount: the
\* token warnings logged on it; overlapped: two calls on it were running at
\* the same time (history, not a field of the object).
NewClient ==
    [tokenWarningSent |-> FALSE, warnCount |-> 0, overlapped |-> FALSE]

\* A caller holds its Binstar object; pc is the line of _check_response it
\* is about to run, headers the headers of the response it classifies.
NewCaller(s) == [client |-> s, pc |-> "idle", headers |-> {}, calls |-> 0]

\* Each caller has its own object or both have the same one.
ConcInit ==
    /\ Constructed
    /\ domain = NormalizeDomain(<<"a">>)
    /\ token = None
    /\ clients = [s \in Sessions |-> NewClient]
    /\ \E of \in [Callers -> Sessions] :
          callers = [c \in Callers |-> NewCaller(of[c])]

\* Another caller is inside _check_response on the object of caller c.
OthersInside(c) ==
    \E d \in Callers \ {c} :
        /\ callers[d].client = callers[c].client
        /\ callers[d].pc # "idle"

\* line 190: caller c enters _check_response(res) on its object
ConcCall(c) ==
    /\ callers[c].pc = "idle"
    /\ callers[c].calls < MaxCalls
    /\ \E h \in SUBSET {TW} :
          callers' = [callers EXCEPT ![c] =
                        [@ EXCEPT !.pc = "196", !.headers = h,
                                  !.calls = @ + 1]]
    /\ clients' = [clients EXCEPT ![callers[c].client].overlapped =
                      @ \/ OthersInside(c)]
    /\ UNCHANGED sequential

\* line 196: the test reads self._token_warning_sent as it is now
ConcTest(c) ==
    /\ callers[c].pc = "196"
    /\ callers' = [callers EXCEPT ![c] =
                     IF LogsTokenWarning(
                            [headers |-> callers[c].headers],
                            clients[callers[c].client].tokenWarningSent)
                     THEN [@ EXCEPT !.pc = "197"]
                     ELSE [@ EXCEPT !.pc = "idle", !.headers = {}]]
    /\ UNCHANGED clients
    /\ UNCHANGED sequential

\* line 197: logger.warning('Token warning: ...')
ConcLog(c) ==
    /\ callers[c].pc = "197"
    /\ callers' = [callers EXCEPT ![c].pc = "198"]
    /\ clients' = [clients EXCEPT ![callers[c].client].warnCount = @ + 1]
    /\ UNCHANGED sequential

\* (mutation of MarkSent: the assignment of line 198 is lost)
MarkSent_Lost(sent) == sent

\* line 198: self._token_warning_sent = True
MarkSent(sent) == TRUE

\* line 198, and the rest of the classification, which does not touch the
\* flag
ConcSet(c) ==
    /\ callers[c].pc = "198"
    /\ callers' = [callers EXCEPT ![c] =
                     [@ EXCEPT !.pc = "idle", !.headers = {}]]
    /\ clients' = [clients EXCEPT ![callers[c].client].tokenWarningSent =
                      MarkSent(@)]
    /\ UNCHANGED sequential

ConcNext ==
    \/ \E c \in Callers : ConcCall(c)
    \/ \E c \in Callers : ConcTest(c)
    \/ \E c \in Callers : ConcLog(c)
    \/ \E c \in Callers : ConcSet(c)

SpecConc == ConcInit /\ [][ConcNext]_vars

---------------------------------------------------------------------------
(* Properties *)

\* The response a direct _check_response call has just classified.
DirectCall == op = "_check_response" /\ pc = "done"
LastStatus == last.status[1]

\* C1: a response whose status is not in the allowed set makes
\* _check_response raise; the error class depends on the status alone (401
\* Unauthorized, 404 NotFound, 409 Conflict, >= 500 ServerError, otherwise
\* BinstarError) and the error carries the response's status.
C1_ErrorClassByStatus ==
    (DirectCall /\ LastStatus \notin last.allowed) =>
        /\ result.kind = "raise"
        /\ result.status = <<LastStatus>>
        /\ result.cause = None
        /\ (LastStatus = 401 => result.cls = "Unauthorized")
        /\ (LastStatus = 404 => result.cls = "NotFound")
        /\ (LastStatus = 409 => result.cls = "Conflict")
        /\ (LastStatus >= 500 => result.cls = "ServerError")
        /\ (LastStatus < 500 /\ LastStatus \notin {401, 404, 409}
              => result.cls = "BinstarError")

\* A 409 outside the allowed set, with warning headers, raised as Conflict.
C1_Witness ==
    /\ DirectCall
    /\ last.status = <<409>>
    /\ 409 \notin last.allowed
    /\ last.headers = HeaderNames
    /\ result.cls = "Conflict"
    /\ result.status = <<409>>

\* C2: a response whose status is in the allowed set makes _check_response
\* return without raising, whatever the status and whatever warning headers
\* the response carries.
C2_AllowedNeverRaises ==
    (DirectCall /\ LastStatus \in last.allowed) => result = OK

\* A 500 that is allowed, carrying every warning header, is accepted.
C2_Witness ==
    /\ DirectCall
    /\ last.status = <<500>>
    /\ 500 \in last.allowed
    /\ last.headers = HeaderNames
    /\ last.newer
    /\ logged = {"version", "token", "lockdown", "readonly"}
    /\ result = OK

\* C3: on one session the token warning is logged exactly once if some
\* classified response carried Conda-Token-Warning and never otherwise; it is
\* logged by the classification of the first such response, which sets
\* _token_warning_sent, and the flag is never reset.
C3_TokenWarningOnce ==
    /\ [](/\ warnCount = (IF tokenHeaderSeen THEN 1 ELSE 0)
          /\ tokenWarningSent = tokenHeaderSeen)
    /\ [][/\ tokenWarningSent => tokenWarningSent'
          /\ ("token" \in logged') <=> (~tokenHeaderSeen /\ tokenHeaderSeen')
          /\ ("token" \in logged') => (~tokenWarningSent /\ tokenWarningSent')
         ]_vars

\* A later response of the session (the commit answer of an upload) carries
\* the header again and nothing is logged for it.
C3_Witness ==
    /\ op = "upload"
    /\ Len(reqs) = 3
    /\ TW \in last.headers
    /\ "token" \notin logged
    /\ warnCount = 1
    /\ tokenWarningSent

\* The names of the requests sent, in order.
Names(rs) == [i \in 1..Len(rs) |-> rs[i].name]

UploadSteps == <<"stage", "transfer", "commit">>

\* The answer that lets upload go on after the request of that name.
GoodAnswer(name, a) ==
    IF name = "transfer" THEN a.status = <<201>>
    ELSE a.status = <<200>> /\ a.json

AllAnswersGood ==
    \A i \in 1..Len(answers) : GoodAnswer(reqs[i].name, answers[i])

UploadDone == op = "upload" /\ pc = "done"

\* C4: an upload (with or without md5, sha256, size) whose stage request is
\* answered 200 with the staging object, whose transfer is answered 201 and
\* whose commit is answered 200 sends exactly stage, transfer, commit in that
\* order and returns the decoded body of the commit answer.
C4_UploadHappyPath ==
    (UploadDone /\ Len(answers) >= 1 /\ AllAnswersGood) =>
        /\ Names(reqs) = UploadSteps
        /\ result = Returned("commit")

\* C5: a failure in any phase of upload aborts the call: no request follows
\* a request that was not answered with success, a commit answer other than
\* 200 raises the classified error, and stage, transfer, commit are each sent
\* at most once, in that order.
C5_FailureAborts ==
    op = "upload" =>
        /\ Len(reqs) = Len(answers)
        /\ Len(reqs) <= 3
        /\ Names(reqs) = SubSeq(UploadSteps, 1, Len(reqs))
        /\ \A i \in 1..Len(answers) :
              ~GoodAnswer(reqs[i].name, answers[i]) =>
                  /\ Len(reqs) = i
                  /\ pc = "done"
                  /\ result.kind = "raise"
        /\ (Len(answers) = 3 /\ answers[3].reached
              /\ answers[3].status # <<200>>) =>
                  /\ result.cls \in BinstarErrors
                  /\ result.status = answers[3].status

\* The storage layer answered 500: upload raised, the commit was not sent.
C5_Witness ==
    /\ UploadDone
    /\ Names(reqs) = <<"stage", "transfer">>
    /\ answers[2].status = <<500>>
    /\ result.cls = "BinstarError"
    /\ result.status = <<500>>

\* C6: download sends one session request with redirects disabled; 200
\* returns that response and 304 returns None, with no further request; 302
\* is followed by exactly one GET of the location, sent outside the session
\* and without its Authorization header, whose response is returned; any
\* other status raises the classified error with no further request.
C6_DownloadResolves ==
    op = "download" =>
        /\ Len(reqs) \in {1, 2}
        /\ Len(reqs) = Len(answers)
        /\ reqs[1].via = "session" /\ reqs[1].redirects = FALSE
        /\ answers[1].status = <<200>> =>
              pc = "done" /\ Len(reqs) = 1 /\ result = Returned("res")
        /\ answers[1].status = <<304>> =>
              pc = "done" /\ Len(reqs) = 1 /\ result = Returned(None)
        /\ answers[1].status = <<302>> =>
              IF pc = "follow" THEN Len(reqs) = 1 /\ result = NoResult
              ELSE /\ pc = "done" /\ Len(reqs) = 2
                   /\ reqs[2].method = "GET"
                   /\ reqs[2].url = frame.location
                   /\ reqs[2].via = "requests"
                   /\ reqs[2].authorization = NoAuth
                   /\ answers[2].reached => result = Returned("res2")
        /\ (answers[1].reached
              /\ answers[1].status \notin {<<200>>, <<302>>, <<304>>}) =>
              /\ pc = "done" /\ Len(reqs) = 1
              /\ result.kind = "raise"
              /\ result.cls \in BinstarErrors
              /\ result.status = answers[1].status

\* A session holding a token follows a 302 to the storage host: the primary
\* request carries the token, the follow-up does not.
C6_Witness ==
    /\ op = "download" /\ pc = "done"
    /\ Len(reqs) = 2
    /\ reqs[1].authorization = TokenHeader("t0")
    /\ reqs[2].url = ExternalUrl
    /\ reqs[2].authorization = NoAuth
    /\ result = Returned("res2")

\* C7: the transfer of an upload carries the session's Authorization header
\* only when the storage URL is on the origin of the base endpoint; to any
\* other origin, also one whose URL merely begins with the endpoint string,
\* it is sent without the session's credential.
C7_NoCredentialOffOrigin ==
    \A i \in 1..Len(reqs) :
        (reqs[i].name = "transfer" /\ Origin(reqs[i].url) # Origin(domain)) =>
            reqs[i].authorization = NoAuth

\* The transport did not reach the server for the last request of the call.
Unreached == Len(answers) >= 1 /\ ~answers[Len(answers)].reached

C9_DomainNormalized ==
    /\ [](/\ startswith(domain, HTTP) \/ startswith(domain, HTTPS)
          /\ ~endswith(domain, "/"))
    /\ [][domain' = domain]_vars

\* C10: every upload whose stage request succeeds sends the transfer request,
\* with Content-Length (a byte count) and Content-MD5 (the base64 digest) in
\* the form fields, whether or not the caller supplied md5 or size.
C10_TransferCarriesLengthAndMd5 ==
    op = "upload" =>
        /\ (Len(answers) >= 1 /\ GoodAnswer("stage", answers[1])) =>
              pc = "transfer" \/ Len(reqs) >= 2
        /\ \A i \in 1..Len(reqs) :
              reqs[i].name = "transfer" =>
                  /\ Len(reqs[i].data) = 2
                  /\ reqs[i].data[1] \in {<<n>> : n \in 0..MaxFile}
                  /\ reqs[i].data[2] = "b64md5"

\* The storage layer answered the transfer of this upload with a status
\* other than 201.
TransferRefused ==
    /\ UploadDone
    /\ Len(answers) = 2
    /\ answers[2].reached
    /\ answers[2].status # <<201>>

\* C11: whenever the storage transfer is answered with a status other than
\* 201, whatever the body (XML with Code InvalidDigest, XML with another
\* Code, XML without a Code element, not XML), upload raises BinstarError
\* carrying the storage status, and the message has the checksum sentence
\* exactly when the body's Code is InvalidDigest.
C11_TransferFailureTyped ==
    TransferRefused =>
        /\ result.kind = "raise"
        /\ result.cls = "BinstarError"
        /\ result.status = answers[2].status
        /\ (result.msg = "upload+checksum") <=> (frame.text = "InvalidDigest")

\* The call that has just ended is an authentication.
AuthenticateDone == op = "authenticate" /\ pc = "done"

\* The requests of the running call that go through the session with no
\* credentials of their own (the authentication request passes auth=...).
SessionRequests ==
    {i \in 1..Len(reqs) :
        reqs[i].via = "session" /\ reqs[i].name # "authentications"}

\* C12: the session's Authorization header changes only on a successful
\* authentication: an authentication answered 200 with the token makes the
\* header 'token <that token>', and the session requests sent afterwards
\* carry the session's header; an authentication answered with any other
\* status (or not answered) raises and leaves the header as it was, absent
\* or the constructor's token; no other step of any operation changes it.
C12_AuthorizationFrame ==
    /\ [](/\ (AuthenticateDone /\ answers[1].status = <<200>>
                /\ answers[1].json) =>
                  /\ result.kind = "return"
                  /\ authorization = TokenHeader(result.value)
          /\ \A i \in SessionRequests :
                reqs[i].authorization = authorization
          /\ authorization \in
                {InitAuthorization(token)}
                   \cup {TokenHeader(t) : t \in ServerTokens})
    /\ [][/\ authorization' # authorization =>
                /\ pc = "idle"
                /\ op' = "authenticate"
                /\ result'.kind = "return"
                /\ authorization' = TokenHeader(result'.value)
          /\ (pc = "idle" /\ op' = "authenticate"
                /\ answers'[1].status # <<200>>) =>
                /\ result'.kind = "raise"
                /\ authorization' = authorization]_vars

\* A request sent through the session after a successful authentication
\* replaced the constructor's token: it carries the server's token.
C12_Witness ==
    /\ op = "package"
    /\ pc = "done"
    /\ token = "t0"
    /\ authorization = TokenHeader("t1")
    /\ reqs[1].via = "session"
    /\ reqs[1].authorization = TokenHeader("t1")

\* The callers that use the Binstar object s.
CallersOf(s) == {c \in Callers : callers[c].client = s}

\* C13: under concurrent use of one session the token warning can be logged
\* twice (both callers pass the test of line 196 before either assigns at
\* line 198), once per caller at most; on a session whose calls never run
\* at the same time (one session per caller, or the calls serialized) it is
\* logged at most once.
C13_TokenWarningRace ==
    \A s \in Sessions :
        /\ clients[s].warnCount <= Cardinality(CallersOf(s))
        /\ ~clients[s].overlapped => clients[s].warnCount <= 1
        /\ clients[s].warnCount >= 1 =>
              \/ clients[s].tokenWarningSent
              \/ \E c \in CallersOf(s) : callers[c].pc = "198"

\* Two callers on one session, both classifications done, the warning
\* logged twice.
C13_Witness ==
    \E s \in Sessions :
        /\ CallersOf(s) = Callers
        /\ \A c \in Callers : callers[c].pc = "idle"
        /\ clients[s].warnCount = 2

====
